---- MODULE Spec2Model ----
(***************************************************************************)
(* Model of weather_monitor.py: the forecast analysers, the threshold      *)
(* evaluation and grouping done by main(), the hazard de-duplication of    *)
(* hent_farevarsler_norge() and the Slack notifications.                   *)
(*                                                                         *)
(* Numbers: the Python floats are modelled as integers (mm, degrees C).    *)
(* JSON values that may be missing or null are records [tag, v] with tag   *)
(* "absent" (key missing), "null" (JSON null / Python None) or "val".      *)
(* Identifiers follow the source with ae/o for the Norwegian letters.      *)
(***************************************************************************)
EXTENDS Integers, Sequences, FiniteSets, TLC

VARIABLES
    pc,                       \* position of the running function
    THRESHOLDS,               \* the threshold configuration read at start-up
    webhook_set,              \* SLACK_WEBHOOK_URL differs from the placeholder
    timeseries,               \* forecast document handed to an analyser
    nedbor,                   \* result of analyser_nedbor
    temp,                     \* result of analyser_temperatur
    data,                     \* the MetAlerts response (or the request error)
    farevarsler,              \* result of hent_farevarsler_norge
    idx,                      \* index into LOCATIONS of the loop in main()
    kraftig_nedbor_kommuner,  \* main(): group for the hourly precipitation
    mye_nedbor_kommuner,      \* main(): group for the 24 h precipitation
    temp_sving_kommuner,      \* main(): group for the temperature swing
    hentet,                   \* calls of hent_vaerdata so far: <<[navn, ok]>>
    slack                     \* webhook posts attempted so far

vars == <<pc, THRESHOLDS, webhook_set, timeseries, nedbor, temp, data,
          farevarsler, idx, kraftig_nedbor_kommuner, mye_nedbor_kommuner,
          temp_sving_kommuner, hentet, slack>>

-----------------------------------------------------------------------------
(* JSON values *)

Absent == [tag |-> "absent", v |-> 0]
Null == [tag |-> "null", v |-> 0]
Val(n) == [tag |-> "val", v |-> n]

\* dict.get(key, default): the default only replaces a missing key
DictGet(x, default) == IF x.tag = "absent" THEN default ELSE x

Max2(a, b) == IF a >= b THEN a ELSE b

RECURSIVE SeqMin(_)
SeqMin(s) ==
    IF Len(s) = 1 THEN s[1]
    ELSE LET m == SeqMin(Tail(s)) IN IF s[1] <= m THEN s[1] ELSE m

RECURSIVE SeqMax(_)
SeqMax(s) ==
    IF Len(s) = 1 THEN s[1]
    ELSE LET m == SeqMax(Tail(s)) IN IF s[1] >= m THEN s[1] ELSE m

\* timeseries[:24]
Window24 == 24

Slice24(ts) == SubSeq(ts, 1, IF Len(ts) < Window24 THEN Len(ts) ELSE Window24)

-----------------------------------------------------------------------------
(* analyser_nedbor *)

\* the first loop: max, total and count over all entries
RECURSIVE NedborAlle(_, _, _)
NedborAlle(ts, k, acc) ==
    IF k > Len(ts) THEN acc
    ELSE LET n == DictGet(ts[k].precipitation_amount, Val(0)) IN
         NedborAlle(ts, k + 1,
            IF n.tag # "null"
            THEN [max_nedbor_time |-> Max2(acc.max_nedbor_time, n.v),
                  total_nedbor |-> acc.total_nedbor + n.v,
                  timer_med_data |-> acc.timer_med_data + 1]
            ELSE acc)

\* the second loop: the total over timeseries[:24]
RECURSIVE Nedbor24t(_, _, _)
Nedbor24t(ts, k, total) ==
    IF k > Len(ts) THEN total
    ELSE LET n == DictGet(ts[k].precipitation_amount, Val(0)) IN
         Nedbor24t(ts, k + 1, IF n.tag # "null" THEN total + n.v ELSE total)

\* the 24 h loop started at the second entry
analyser_nedbor_SkipFirst(ts) ==
    LET alle == NedborAlle(ts, 1,
                   [max_nedbor_time |-> 0, total_nedbor |-> 0, timer_med_data |-> 0])
    IN [max_per_time |-> alle.max_nedbor_time,
        total_24t |-> Nedbor24t(Slice24(ts), 2, 0),
        total_periode |-> alle.total_nedbor,
        timer_dekket |-> alle.timer_med_data]

analyser_nedbor(ts) ==
    LET alle == NedborAlle(ts, 1,
                   [max_nedbor_time |-> 0, total_nedbor |-> 0, timer_med_data |-> 0])
    IN [max_per_time |-> alle.max_nedbor_time,
        total_24t |-> Nedbor24t(Slice24(ts), 1, 0),
        total_periode |-> alle.total_nedbor,
        timer_dekket |-> alle.timer_med_data]

NedborNull == [max_per_time |-> 0, total_24t |-> 0, total_periode |-> 0, timer_dekket |-> 0]

-----------------------------------------------------------------------------
(* analyser_temperatur *)

\* the collecting loop: temperaturer_alle and temperaturer_24t
RECURSIVE Temperaturer(_, _, _)
Temperaturer(ts, k, acc) ==
    IF k > Len(ts) THEN acc
    ELSE LET t == DictGet(ts[k].air_temperature, Null) IN
         Temperaturer(ts, k + 1,
            IF t.tag # "null"
            THEN [alle |-> Append(acc.alle, t.v),
                  t24 |-> IF k - 1 < Window24 THEN Append(acc.t24, t.v) ELSE acc.t24]
            ELSE acc)

TempNull == [min |-> 0, max |-> 0, sving |-> 0, min_24t |-> 0, max_24t |-> 0,
             sving_24t |-> 0, timer_dekket |-> 0]

\* the collecting loop with the 24 h test as an if / else: an entry of the
\* first 24 only reaches temperaturer_24t, a later one only temperaturer_alle
RECURSIVE Temperaturer_Else(_, _, _)
Temperaturer_Else(ts, k, acc) ==
    IF k > Len(ts) THEN acc
    ELSE LET t == DictGet(ts[k].air_temperature, Null) IN
         Temperaturer_Else(ts, k + 1,
            IF t.tag # "null"
            THEN IF k - 1 < Window24
                 THEN [alle |-> acc.alle, t24 |-> Append(acc.t24, t.v)]
                 ELSE [alle |-> Append(acc.alle, t.v), t24 |-> acc.t24]
            ELSE acc)

analyser_temperatur_Else(ts) ==
    LET c == Temperaturer_Else(ts, 1, [alle |-> <<>>, t24 |-> <<>>]) IN
    IF c.alle = <<>> THEN TempNull
    ELSE LET min_temp == SeqMin(c.alle)
             max_temp == SeqMax(c.alle)
             min_temp_24t == IF c.t24 # <<>> THEN SeqMin(c.t24) ELSE 0
             max_temp_24t == IF c.t24 # <<>> THEN SeqMax(c.t24) ELSE 0
         IN [min |-> min_temp, max |-> max_temp, sving |-> max_temp - min_temp,
             min_24t |-> min_temp_24t, max_24t |-> max_temp_24t,
             sving_24t |-> IF c.t24 # <<>> THEN max_temp_24t - min_temp_24t ELSE 0,
             timer_dekket |-> Len(c.alle)]

analyser_temperatur(ts) ==
    LET c == Temperaturer(ts, 1, [alle |-> <<>>, t24 |-> <<>>]) IN
    IF c.alle = <<>> THEN TempNull
    ELSE LET min_temp == SeqMin(c.alle)
             max_temp == SeqMax(c.alle)
             min_temp_24t == IF c.t24 # <<>> THEN SeqMin(c.t24) ELSE 0
             max_temp_24t == IF c.t24 # <<>> THEN SeqMax(c.t24) ELSE 0
         IN [min |-> min_temp, max |-> max_temp, sving |-> max_temp - min_temp,
             min_24t |-> min_temp_24t, max_24t |-> max_temp_24t,
             sving_24t |-> IF c.t24 # <<>> THEN max_temp_24t - min_temp_24t ELSE 0,
             timer_dekket |-> Len(c.alle)]

-----------------------------------------------------------------------------
(* Forecast documents: a run of Pad equal entries followed by a free tail, *)
(* so that documents shorter than, exactly as long as and longer than the  *)
(* 24 h window all occur.                                                  *)

Entry(p, t) == [precipitation_amount |-> p, air_temperature |-> t]

SeqsUpTo(S, n) == UNION {[1..k -> S] : k \in 0..n}

Pad(e, k) == [j \in 1..k |-> e]

PadLens == {0, Window24 - 1, Window24}

DocsOf(entries, pads, maxTail) ==
    {Pad(f, k) \o tail : f \in entries, k \in pads, tail \in SeqsUpTo(entries, maxTail)}

-----------------------------------------------------------------------------
(* Configuration *)

\* lat / lon in 1e-4 degrees
LOCATIONS == <<
    [name |-> "Aurskog-Holand", lat |-> 598831, lon |-> 115617],
    [name |-> "Eidsvoll", lat |-> 603345, lon |-> 112525],
    [name |-> "Enebakk", lat |-> 597631, lon |-> 111542],
    [name |-> "Hurdal", lat |-> 604674, lon |-> 110514],
    [name |-> "Gjerdrum", lat |-> 600833, lon |-> 110333],
    [name |-> "Lillestrom", lat |-> 599500, lon |-> 112000],
    [name |-> "Lorenskog", lat |-> 599294, lon |-> 109574],
    [name |-> "Nannestad", lat |-> 602261, lon |-> 110236],
    [name |-> "Nes (Akershus)", lat |-> 601333, lon |-> 114667],
    [name |-> "Nittedal", lat |-> 600500, lon |-> 108667],
    [name |-> "Ullensaker", lat |-> 601333, lon |-> 111667],
    [name |-> "Ralingen", lat |-> 599333, lon |-> 110833] >>

\* how many of the configured locations a modelled run iterates over
MaxLocations == 2

Kommuner == SubSeq(LOCATIONS, 1, MaxLocations)

\* THRESHOLDS is read from the environment: the defaults, and the defaults
\* with THRESHOLD_TEMPERATURE_SWING=0
ThresholdDefault ==
    [nedbor_mm_per_time |-> 5, nedbor_mm_per_dag |-> 30, temp_sving_grader |-> 15]

ThresholdConfigs ==
    {ThresholdDefault,
     [nedbor_mm_per_time |-> 5, nedbor_mm_per_dag |-> 30, temp_sving_grader |-> 0]}

-----------------------------------------------------------------------------
(* hent_farevarsler_norge *)

\* Python truthiness of a string / list valued property ("" also stands for
\* a missing key: props.get(key) is None then, which is falsy as well)
Truthy(x) == x # ""

\* f"{event}_{severity}_{onset}", a missing key formatted as ''
VarselId(props) == props.event \o "_" \o props.severity \o "_" \o props.onset

RECURSIVE RelevanteVarsler(_, _, _, _)
RelevanteVarsler(fs, k, relevante_varsler, sett_varsler) ==
    IF k > Len(fs) THEN relevante_varsler
    ELSE LET props == fs[k]
             varsel_id == VarselId(props)
         IN IF (Truthy(props.county) \/ Truthy(props.MunicipalityId))
               /\ varsel_id \notin sett_varsler
            THEN RelevanteVarsler(fs, k + 1, Append(relevante_varsler, fs[k]),
                                  sett_varsler \cup {varsel_id})
            ELSE RelevanteVarsler(fs, k + 1, relevante_varsler, sett_varsler)

IngenFarevarsler == [tag |-> "null", features |-> <<>>]

\* resp.tag = "error": requests raised RequestException
hent_farevarsler_norge(resp) ==
    IF resp.tag = "error" THEN IngenFarevarsler
    ELSE LET r == RelevanteVarsler(resp.features, 1, <<>>, {}) IN
         IF r # <<>> THEN [tag |-> "val", features |-> r] ELSE IngenFarevarsler

-----------------------------------------------------------------------------
(* Slack *)

\* the coordinate lookup of send_slack_varsel: None, None unless a
\* configured location carries the name
RECURSIVE FinnKoordinater(_, _)
FinnKoordinater(lokasjon, k) ==
    IF k > Len(LOCATIONS) THEN [lat |-> Null, lon |-> Null]
    ELSE IF LOCATIONS[k].name = lokasjon
         THEN [lat |-> Val(LOCATIONS[k].lat), lon |-> Val(LOCATIONS[k].lon)]
         ELSE FinnKoordinater(lokasjon, k + 1)

\* The post made by send_slack_varsel; metno_url is the pair formatted into
\* the yr.no link, ok is whether requests.post succeeded (a failure is
\* caught and printed).
send_slack_varsel(melding, lokasjon, ok) ==
    [funksjon |-> "send_slack_varsel", tittel |-> lokasjon, melding |-> melding,
     metno_url |-> FinnKoordinater(lokasjon, 1), ok |-> ok]

send_slack_varsel_gruppert(melding, tittel, lat, lon, ok) ==
    [funksjon |-> "send_slack_varsel_gruppert", tittel |-> tittel, melding |-> melding,
     metno_url |-> [lat |-> Val(lat), lon |-> Val(lon)], ok |-> ok]

-----------------------------------------------------------------------------
(* send_farevarsler_norge *)

\* One rendered hazard: the four properties the text is built from (the
\* emoji and translation tables only change the wording).
VarselTekst(props) ==
    [hendelse |-> IF props.event = "" THEN "Ukjent hendelse" ELSE props.event,
     alvorlighet |-> props.severity,
     omrade |-> props.area,
     beskrivelse |-> props.description]

\* the posts send_farevarsler_norge makes for a MetAlerts response
send_farevarsler_norge(resp, ok) ==
    LET fv == hent_farevarsler_norge(resp) IN
    IF fv.tag = "null" \/ fv.features = <<>> THEN <<>>
    ELSE LET varsler == [j \in 1..Len(fv.features) |-> VarselTekst(fv.features[j])] IN
         << send_slack_varsel(varsler, "Norge - Farevarsler", ok) >>

-----------------------------------------------------------------------------
(* sorted(kommuner, key=..., reverse=True): descending and stable *)

\* place index i behind every index whose key is at least keys[i]
RECURSIVE InsertIdx(_, _, _)
InsertIdx(perm, i, keys) ==
    IF perm = <<>> THEN <<i>>
    ELSE IF keys[Head(perm)] >= keys[i]
         THEN <<Head(perm)>> \o InsertIdx(Tail(perm), i, keys)
         ELSE <<i>> \o perm

RECURSIVE SortPerm(_, _)
SortPerm(keys, n) ==
    IF n = 0 THEN <<>> ELSE InsertIdx(SortPerm(keys, n - 1), n, keys)

\* an ascending stable sort read backwards: equal keys come out reversed
RECURSIVE InsertIdxAsc(_, _, _)
InsertIdxAsc(perm, i, keys) ==
    IF perm = <<>> THEN <<i>>
    ELSE IF keys[Head(perm)] <= keys[i]
         THEN <<Head(perm)>> \o InsertIdxAsc(Tail(perm), i, keys)
         ELSE <<i>> \o perm

RECURSIVE SortPermAsc(_, _)
SortPermAsc(keys, n) ==
    IF n = 0 THEN <<>> ELSE InsertIdxAsc(SortPermAsc(keys, n - 1), n, keys)

sorted_reverse_Unstable(kommuner, keys) ==
    LET n == Len(kommuner)
        p == SortPermAsc(keys, n)
    IN [j \in 1..n |-> kommuner[p[n + 1 - j]]]

sorted_reverse(kommuner, keys) ==
    LET p == SortPerm(keys, Len(kommuner)) IN
    [j \in 1..Len(kommuner) |-> kommuner[p[j]]]

-----------------------------------------------------------------------------
(* send_gruppert_varsel_* : the post made for a non-empty group *)

send_gruppert_varsel_nedbor_time(kommuner, thr, ok) ==
    LET kommuner_sortert ==
            sorted_reverse(kommuner, [j \in 1..Len(kommuner) |-> kommuner[j].verdi])
        kommune_liste == [j \in 1..Len(kommuner_sortert) |->
            [navn |-> kommuner_sortert[j].navn, verdi |-> kommuner_sortert[j].verdi]]
        melding == [overskrift |-> "Kraftig nedbor varslet",
                    kommune_liste |-> kommune_liste,
                    terskelverdi |-> thr.nedbor_mm_per_time]
    IN send_slack_varsel_gruppert(melding, "Kraftig nedbor",
                                  kommuner_sortert[1].lat, kommuner_sortert[1].lon, ok)

send_gruppert_varsel_nedbor_dogn(kommuner, thr, ok) ==
    LET kommuner_sortert ==
            sorted_reverse(kommuner, [j \in 1..Len(kommuner) |-> kommuner[j].verdi])
        kommune_liste == [j \in 1..Len(kommuner_sortert) |->
            [navn |-> kommuner_sortert[j].navn, verdi |-> kommuner_sortert[j].verdi]]
        melding == [overskrift |-> "Mye nedbor neste dogn",
                    kommune_liste |-> kommune_liste,
                    terskelverdi |-> thr.nedbor_mm_per_dag]
    IN send_slack_varsel_gruppert(melding, "Mye nedbor",
                                  kommuner_sortert[1].lat, kommuner_sortert[1].lon, ok)

send_gruppert_varsel_temperatur(kommuner, thr, ok) ==
    LET kommuner_sortert ==
            sorted_reverse(kommuner, [j \in 1..Len(kommuner) |-> kommuner[j].sving])
        kommune_liste == [j \in 1..Len(kommuner_sortert) |->
            [navn |-> kommuner_sortert[j].navn, min |-> kommuner_sortert[j].min,
             max |-> kommuner_sortert[j].max, sving |-> kommuner_sortert[j].sving]]
        melding == [overskrift |-> "Store temperatursvingninger varslet",
                    kommune_liste |-> kommune_liste,
                    terskelverdi |-> thr.temp_sving_grader]
    IN send_slack_varsel_gruppert(melding, "Temperatursvingninger",
                                  kommuner_sortert[1].lat, kommuner_sortert[1].lon, ok)

-----------------------------------------------------------------------------
(* main(): the body of the loop over LOCATIONS once vaerdata is there *)

\* the comparisons written with > : a value equal to its threshold is lost
EvaluerKommune_Strict(lokasjon, ts, thr, g) ==
    LET n == analyser_nedbor(ts)
        t == analyser_temperatur(ts)
        max_sving == Max2(t.sving_24t, t.sving)
    IN [kraftig |->
            IF n.max_per_time > thr.nedbor_mm_per_time
            THEN Append(g.kraftig, [navn |-> lokasjon.name, verdi |-> n.max_per_time,
                                    lat |-> lokasjon.lat, lon |-> lokasjon.lon])
            ELSE g.kraftig,
        mye |->
            IF n.total_24t > thr.nedbor_mm_per_dag
            THEN Append(g.mye, [navn |-> lokasjon.name, verdi |-> n.total_24t,
                                lat |-> lokasjon.lat, lon |-> lokasjon.lon])
            ELSE g.mye,
        temp |->
            IF max_sving > thr.temp_sving_grader
            THEN Append(g.temp,
                        [navn |-> lokasjon.name,
                         min |-> IF t.sving > t.sving_24t THEN t.min ELSE t.min_24t,
                         max |-> IF t.sving > t.sving_24t THEN t.max ELSE t.max_24t,
                         sving |-> max_sving,
                         lat |-> lokasjon.lat, lon |-> lokasjon.lon])
            ELSE g.temp]

\* the three appends: g holds the three groups, the result is g afterwards
EvaluerKommune(lokasjon, ts, thr, g) ==
    LET n == analyser_nedbor(ts)
        t == analyser_temperatur(ts)
        max_sving == Max2(t.sving_24t, t.sving)
    IN [kraftig |->
            IF n.max_per_time >= thr.nedbor_mm_per_time
            THEN Append(g.kraftig, [navn |-> lokasjon.name, verdi |-> n.max_per_time,
                                    lat |-> lokasjon.lat, lon |-> lokasjon.lon])
            ELSE g.kraftig,
        mye |->
            IF n.total_24t >= thr.nedbor_mm_per_dag
            THEN Append(g.mye, [navn |-> lokasjon.name, verdi |-> n.total_24t,
                                lat |-> lokasjon.lat, lon |-> lokasjon.lon])
            ELSE g.mye,
        temp |->
            IF max_sving >= thr.temp_sving_grader
            THEN Append(g.temp,
                        [navn |-> lokasjon.name,
                         min |-> IF t.sving > t.sving_24t THEN t.min ELSE t.min_24t,
                         max |-> IF t.sving > t.sving_24t THEN t.max ELSE t.max_24t,
                         sving |-> max_sving,
                         lat |-> lokasjon.lat, lon |-> lokasjon.lon])
            ELSE g.temp]

-----------------------------------------------------------------------------
(* Inputs *)

\* length of the free tail of a forecast document
MaxTail == 2
\* the same for the documents the loop body of main() is applied to
EvalTail == 1
\* the same for the documents of a whole run of main()
MainTail == 1
\* number of features in a MetAlerts response
MaxFeatures == 3
\* number of locations a group handed to send_gruppert_varsel_* is drawn from
MaxGroup == 3

\* analyser_nedbor: precipitation_amount missing, null, 0 or positive
NedborEntries == {Entry(p, Null) : p \in {Absent, Null, Val(0), Val(2), Val(5)}}
NedborDocs == DocsOf(NedborEntries, PadLens, MaxTail)

\* analyser_temperatur: air_temperature missing, null, below zero, zero or above
TempEntries == {Entry(Null, t) : t \in {Absent, Null, Val(-5), Val(0), Val(15)}}
TempDocs == DocsOf(TempEntries, PadLens, MaxTail)

\* the loop body of main(): precipitation and temperature vary independently
EvalEntries ==
    {Entry(p, t) : p \in {Null, Val(1), Val(5), Val(7)},
                   t \in {Null, Val(0), Val(15), Val(20)}}
EvalDocs == DocsOf(EvalEntries, PadLens, EvalTail)

\* a run of main()
MainEntries == {Entry(Val(1), Val(0)), Entry(Val(7), Val(15))}
MainDocs == DocsOf(MainEntries, {0, Window24}, MainTail)

\* properties of a MetAlerts feature ("" : the key is missing)
HazardProps ==
    {[county |-> r[1], MunicipalityId |-> r[2], event |-> e, severity |-> s,
      onset |-> "2024-01-01T00:00:00", area |-> "Oslo", description |-> d] :
        r \in {<<"", "">>, <<"03", "">>, <<"", "0301">>},
        e \in {"rain", "rain_flood"},
        s \in {"Severe", "flood_Severe"},
        d \in {"a", "b"}}

OkResponse(fs) == [tag |-> "ok", features |-> fs]
ErrorResponse == [tag |-> "error", features |-> <<>>]

HazardResponses ==
    {ErrorResponse} \cup {OkResponse(fs) : fs \in SeqsUpTo(HazardProps, MaxFeatures)}

MainHazard(county, d) ==
    [county |-> county, MunicipalityId |-> "", event |-> "rain", severity |-> "Severe",
     onset |-> "2024-01-01T00:00:00", area |-> "Oslo", description |-> d]

MainResponses ==
    {ErrorResponse, OkResponse(<<>>), OkResponse(<<MainHazard("", "a")>>),
     OkResponse(<<MainHazard("03", "a")>>),
     OkResponse(<<MainHazard("03", "a"), MainHazard("03", "b")>>)}

-----------------------------------------------------------------------------
(* A run of main() *)

TommeGrupper == [kraftig |-> <<>>, mye |-> <<>>, temp |-> <<>>]

Grupper ==
    [kraftig |-> kraftig_nedbor_kommuner, mye |-> mye_nedbor_kommuner,
     temp |-> temp_sving_kommuner]

Idle ==
    /\ timeseries = <<>>
    /\ nedbor = NedborNull
    /\ temp = TempNull
    /\ data = OkResponse(<<>>)
    /\ farevarsler = IngenFarevarsler
    /\ idx = 1
    /\ kraftig_nedbor_kommuner = <<>>
    /\ mye_nedbor_kommuner = <<>>
    /\ temp_sving_kommuner = <<>>
    /\ hentet = <<>>
    /\ slack = <<>>

Init ==
    /\ pc = "main"
    /\ THRESHOLDS \in ThresholdConfigs
    /\ webhook_set \in BOOLEAN
    /\ Idle

\* lines 380-382: without a webhook main() prints a warning and returns
MainStart ==
    /\ pc = "main"
    /\ pc' = IF webhook_set THEN "farevarsler" ELSE "done"
    /\ UNCHANGED <<THRESHOLDS, webhook_set, timeseries, nedbor, temp, data, farevarsler,
                   idx, kraftig_nedbor_kommuner, mye_nedbor_kommuner,
                   temp_sving_kommuner, hentet, slack>>

\* line 385: send_farevarsler_norge()
SendFarevarslerNorge ==
    /\ pc = "farevarsler"
    /\ \E resp \in MainResponses, ok \in BOOLEAN :
          slack' = slack \o send_farevarsler_norge(resp, ok)
    /\ pc' = "loop"
    /\ UNCHANGED <<THRESHOLDS, webhook_set, timeseries, nedbor, temp, data, farevarsler,
                   idx, kraftig_nedbor_kommuner, mye_nedbor_kommuner,
                   temp_sving_kommuner, hentet>>

\* a failed fetch leaves the loop (break) instead of going on
SjekkKommune_Break ==
    /\ pc = "loop"
    /\ idx <= Len(Kommuner)
    /\ \E vaerdata \in {Null} \cup {[tag |-> "val", v |-> d] : d \in MainDocs} :
          LET lokasjon == Kommuner[idx]
              g == IF vaerdata.tag = "val"
                   THEN EvaluerKommune(lokasjon, vaerdata.v, THRESHOLDS, Grupper)
                   ELSE Grupper
          IN /\ hentet' = Append(hentet, [navn |-> lokasjon.name, ok |-> vaerdata.tag = "val"])
             /\ kraftig_nedbor_kommuner' = g.kraftig
             /\ mye_nedbor_kommuner' = g.mye
             /\ temp_sving_kommuner' = g.temp
             /\ pc' = IF idx = Len(Kommuner) \/ vaerdata.tag # "val"
                      THEN "send_time" ELSE "loop"
    /\ idx' = idx + 1
    /\ UNCHANGED <<THRESHOLDS, webhook_set, timeseries, nedbor, temp, data, farevarsler,
                   slack>>

\* one iteration of the loop over LOCATIONS: hent_vaerdata returns None
\* (request error) or a document
SjekkKommune ==
    /\ pc = "loop"
    /\ idx <= Len(Kommuner)
    /\ \E vaerdata \in {Null} \cup {[tag |-> "val", v |-> d] : d \in MainDocs} :
          LET lokasjon == Kommuner[idx]
              g == IF vaerdata.tag = "val"
                   THEN EvaluerKommune(lokasjon, vaerdata.v, THRESHOLDS, Grupper)
                   ELSE Grupper
          IN /\ hentet' = Append(hentet, [navn |-> lokasjon.name, ok |-> vaerdata.tag = "val"])
             /\ kraftig_nedbor_kommuner' = g.kraftig
             /\ mye_nedbor_kommuner' = g.mye
             /\ temp_sving_kommuner' = g.temp
    /\ idx' = idx + 1
    /\ pc' = IF idx = Len(Kommuner) THEN "send_time" ELSE "loop"
    /\ UNCHANGED <<THRESHOLDS, webhook_set, timeseries, nedbor, temp, data, farevarsler,
                   slack>>

\* the RequestException of a failed post is not caught: main() dies
SendNedborTime_Uncaught ==
    /\ pc = "send_time"
    /\ \E ok \in BOOLEAN :
          /\ slack' = IF kraftig_nedbor_kommuner # <<>>
                      THEN Append(slack, send_gruppert_varsel_nedbor_time(
                                             kraftig_nedbor_kommuner, THRESHOLDS, ok))
                      ELSE slack
          /\ pc' = IF kraftig_nedbor_kommuner # <<>> /\ ~ok THEN "exception"
                   ELSE "send_dogn"
    /\ UNCHANGED <<THRESHOLDS, webhook_set, timeseries, nedbor, temp, data, farevarsler,
                   idx, kraftig_nedbor_kommuner, mye_nedbor_kommuner,
                   temp_sving_kommuner, hentet>>

\* lines 440-442
SendNedborTime ==
    /\ pc = "send_time"
    /\ \E ok \in BOOLEAN :
          slack' = IF kraftig_nedbor_kommuner # <<>>
                   THEN Append(slack, send_gruppert_varsel_nedbor_time(
                                          kraftig_nedbor_kommuner, THRESHOLDS, ok))
                   ELSE slack
    /\ pc' = "send_dogn"
    /\ UNCHANGED <<THRESHOLDS, webhook_set, timeseries, nedbor, temp, data, farevarsler,
                   idx, kraftig_nedbor_kommuner, mye_nedbor_kommuner,
                   temp_sving_kommuner, hentet>>

\* written as elif: the 24 h message is skipped when the hourly one was sent
SendNedborDogn_Elif ==
    /\ pc = "send_dogn"
    /\ \E ok \in BOOLEAN :
          slack' = IF mye_nedbor_kommuner # <<>> /\ kraftig_nedbor_kommuner = <<>>
                   THEN Append(slack, send_gruppert_varsel_nedbor_dogn(
                                          mye_nedbor_kommuner, THRESHOLDS, ok))
                   ELSE slack
    /\ pc' = "send_temp"
    /\ UNCHANGED <<THRESHOLDS, webhook_set, timeseries, nedbor, temp, data, farevarsler,
                   idx, kraftig_nedbor_kommuner, mye_nedbor_kommuner,
                   temp_sving_kommuner, hentet>>

\* lines 444-446
SendNedborDogn ==
    /\ pc = "send_dogn"
    /\ \E ok \in BOOLEAN :
          slack' = IF mye_nedbor_kommuner # <<>>
                   THEN Append(slack, send_gruppert_varsel_nedbor_dogn(
                                          mye_nedbor_kommuner, THRESHOLDS, ok))
                   ELSE slack
    /\ pc' = "send_temp"
    /\ UNCHANGED <<THRESHOLDS, webhook_set, timeseries, nedbor, temp, data, farevarsler,
                   idx, kraftig_nedbor_kommuner, mye_nedbor_kommuner,
                   temp_sving_kommuner, hentet>>

\* lines 448-456
SendTemperatur ==
    /\ pc = "send_temp"
    /\ \E ok \in BOOLEAN :
          slack' = IF temp_sving_kommuner # <<>>
                   THEN Append(slack, send_gruppert_varsel_temperatur(
                                          temp_sving_kommuner, THRESHOLDS, ok))
                   ELSE slack
    /\ pc' = "done"
    /\ UNCHANGED <<THRESHOLDS, webhook_set, timeseries, nedbor, temp, data, farevarsler,
                   idx, kraftig_nedbor_kommuner, mye_nedbor_kommuner,
                   temp_sving_kommuner, hentet>>

Next ==
    \/ MainStart
    \/ SendFarevarslerNorge
    \/ SjekkKommune
    \/ SendNedborTime
    \/ SendNedborDogn
    \/ SendTemperatur

Spec == Init /\ [][Next]_vars

\* main() is straight-line code in one thread: a step that can be taken is taken
FairSpec == Spec /\ WF_vars(Next)

-----------------------------------------------------------------------------
(* analyser_nedbor applied to every document of NedborDocs *)

InitNedbor ==
    /\ pc = "analyser_nedbor"
    /\ THRESHOLDS = ThresholdDefault
    /\ webhook_set = TRUE
    /\ timeseries \in NedborDocs
    /\ nedbor = NedborNull
    /\ temp = TempNull
    /\ data = OkResponse(<<>>)
    /\ farevarsler = IngenFarevarsler
    /\ idx = 1
    /\ kraftig_nedbor_kommuner = <<>>
    /\ mye_nedbor_kommuner = <<>>
    /\ temp_sving_kommuner = <<>>
    /\ hentet = <<>>
    /\ slack = <<>>

AnalyserNedbor ==
    /\ pc = "analyser_nedbor"
    /\ nedbor' = analyser_nedbor(timeseries)
    /\ pc' = "return"
    /\ UNCHANGED <<THRESHOLDS, webhook_set, timeseries, temp, data, farevarsler, idx,
                   kraftig_nedbor_kommuner, mye_nedbor_kommuner, temp_sving_kommuner,
                   hentet, slack>>

SpecNedbor == InitNedbor /\ [][AnalyserNedbor]_vars

-----------------------------------------------------------------------------
(* analyser_temperatur applied to every document of TempDocs *)

InitTemp ==
    /\ pc = "analyser_temperatur"
    /\ THRESHOLDS = ThresholdDefault
    /\ webhook_set = TRUE
    /\ timeseries \in TempDocs
    /\ nedbor = NedborNull
    /\ temp = TempNull
    /\ data = OkResponse(<<>>)
    /\ farevarsler = IngenFarevarsler
    /\ idx = 1
    /\ kraftig_nedbor_kommuner = <<>>
    /\ mye_nedbor_kommuner = <<>>
    /\ temp_sving_kommuner = <<>>
    /\ hentet = <<>>
    /\ slack = <<>>

AnalyserTemperatur ==
    /\ pc = "analyser_temperatur"
    /\ temp' = analyser_temperatur(timeseries)
    /\ pc' = "return"
    /\ UNCHANGED <<THRESHOLDS, webhook_set, timeseries, nedbor, data, farevarsler, idx,
                   kraftig_nedbor_kommuner, mye_nedbor_kommuner, temp_sving_kommuner,
                   hentet, slack>>

SpecTemp == InitTemp /\ [][AnalyserTemperatur]_vars

-----------------------------------------------------------------------------
(* The loop body of main() applied to one location and every document of   *)
(* EvalDocs, under every threshold configuration                           *)

InitEval ==
    /\ pc = "evaluer"
    /\ THRESHOLDS \in ThresholdConfigs
    /\ webhook_set = TRUE
    /\ timeseries \in EvalDocs
    /\ nedbor = NedborNull
    /\ temp = TempNull
    /\ data = OkResponse(<<>>)
    /\ farevarsler = IngenFarevarsler
    /\ idx \in 1..Len(Kommuner)
    /\ kraftig_nedbor_kommuner = <<>>
    /\ mye_nedbor_kommuner = <<>>
    /\ temp_sving_kommuner = <<>>
    /\ hentet = <<>>
    /\ slack = <<>>

\* lines 403-435 with vaerdata = timeseries; nedbor and temp are the locals
EvaluerVaerdata ==
    /\ pc = "evaluer"
    /\ nedbor' = analyser_nedbor(timeseries)
    /\ temp' = analyser_temperatur(timeseries)
    /\ LET g == EvaluerKommune(Kommuner[idx], timeseries, THRESHOLDS, TommeGrupper) IN
          /\ kraftig_nedbor_kommuner' = g.kraftig
          /\ mye_nedbor_kommuner' = g.mye
          /\ temp_sving_kommuner' = g.temp
    /\ pc' = "evaluert"
    /\ UNCHANGED <<THRESHOLDS, webhook_set, timeseries, data, farevarsler, idx, hentet,
                   slack>>

SpecEval == InitEval /\ [][EvaluerVaerdata]_vars

-----------------------------------------------------------------------------
(* hent_farevarsler_norge applied to every response of HazardResponses *)

InitDedup ==
    /\ pc = "hent_farevarsler_norge"
    /\ THRESHOLDS = ThresholdDefault
    /\ webhook_set = TRUE
    /\ timeseries = <<>>
    /\ nedbor = NedborNull
    /\ temp = TempNull
    /\ data \in HazardResponses
    /\ farevarsler = IngenFarevarsler
    /\ idx = 1
    /\ kraftig_nedbor_kommuner = <<>>
    /\ mye_nedbor_kommuner = <<>>
    /\ temp_sving_kommuner = <<>>
    /\ hentet = <<>>
    /\ slack = <<>>

HentFarevarslerNorge ==
    /\ pc = "hent_farevarsler_norge"
    /\ farevarsler' = hent_farevarsler_norge(data)
    /\ pc' = "return"
    /\ UNCHANGED <<THRESHOLDS, webhook_set, timeseries, nedbor, temp, data, idx,
                   kraftig_nedbor_kommuner, mye_nedbor_kommuner, temp_sving_kommuner,
                   hentet, slack>>

SpecDedup == InitDedup /\ [][HentFarevarslerNorge]_vars

-----------------------------------------------------------------------------
(* The three sends of main() applied to every group of up to MaxGroup      *)
(* locations: a group holds locations in configuration order, as the loop  *)
(* of main() appends them                                                  *)

GroupValues == {10, 25, 30}

NedborRecord(l, v) == [navn |-> l.name, verdi |-> v, lat |-> l.lat, lon |-> l.lon]

TempRecord(l, v) ==
    [navn |-> l.name, min |-> 0, max |-> v, sving |-> v, lat |-> l.lat, lon |-> l.lon]

\* for every location either no record or a record with one of the values
RECURSIVE GroupsOver(_, _)
GroupsOver(k, temperatur) ==
    IF k = 0 THEN {<<>>}
    ELSE LET rest == GroupsOver(k - 1, temperatur) IN
         rest \cup {Append(g, IF temperatur THEN TempRecord(LOCATIONS[k], v)
                                 ELSE NedborRecord(LOCATIONS[k], v)) :
                       g \in rest, v \in GroupValues}

InitSort ==
    /\ pc = "send_time"
    /\ THRESHOLDS = ThresholdDefault
    /\ webhook_set = TRUE
    /\ timeseries = <<>>
    /\ nedbor = NedborNull
    /\ temp = TempNull
    /\ data = OkResponse(<<>>)
    /\ farevarsler = IngenFarevarsler
    /\ idx = Len(Kommuner) + 1
    /\ \E t \in {"Kraftig nedbor", "Mye nedbor", "Temperatursvingninger"} :
          /\ kraftig_nedbor_kommuner \in
                (IF t = "Kraftig nedbor" THEN GroupsOver(MaxGroup, FALSE) ELSE {<<>>})
          /\ mye_nedbor_kommuner \in
                (IF t = "Mye nedbor" THEN GroupsOver(MaxGroup, FALSE) ELSE {<<>>})
          /\ temp_sving_kommuner \in
                (IF t = "Temperatursvingninger" THEN GroupsOver(MaxGroup, TRUE)
                 ELSE {<<>>})
    /\ hentet = <<>>
    /\ slack = <<>>

NextSort ==
    \/ SendNedborTime
    \/ SendNedborDogn
    \/ SendTemperatur

SpecSort == InitSort /\ [][NextSort]_vars

-----------------------------------------------------------------------------
(* Properties of the loop body of main(), under SpecEval *)

\* C1: for a location whose forecast was fetched, main() appends it to a
\* kind's group if and only if the comparison value (max_per_time, total_24t,
\* max(sving, sving_24t)) is greater than or equal to the configured
\* threshold, and the appended record carries that value; a value equal to
\* the threshold triggers, a value below it does not.
C1_AppendIffAtLeastThreshold ==
    pc = "evaluert" =>
        LET l == Kommuner[idx]
            max_sving == Max2(temp.sving, temp.sving_24t)
        IN /\ Len(kraftig_nedbor_kommuner) =
                 (IF nedbor.max_per_time < THRESHOLDS.nedbor_mm_per_time THEN 0 ELSE 1)
           /\ Len(mye_nedbor_kommuner) =
                 (IF nedbor.total_24t < THRESHOLDS.nedbor_mm_per_dag THEN 0 ELSE 1)
           /\ Len(temp_sving_kommuner) =
                 (IF max_sving < THRESHOLDS.temp_sving_grader THEN 0 ELSE 1)
           /\ \A j \in 1..Len(kraftig_nedbor_kommuner) :
                 /\ kraftig_nedbor_kommuner[j].navn = l.name
                 /\ kraftig_nedbor_kommuner[j].verdi = nedbor.max_per_time
           /\ \A j \in 1..Len(mye_nedbor_kommuner) :
                 /\ mye_nedbor_kommuner[j].navn = l.name
                 /\ mye_nedbor_kommuner[j].verdi = nedbor.total_24t
           /\ \A j \in 1..Len(temp_sving_kommuner) :
                 /\ temp_sving_kommuner[j].navn = l.name
                 /\ temp_sving_kommuner[j].sving = max_sving

\* the hourly maximum equals its threshold and triggers, the 24 h total is
\* below its threshold and does not
C1_Witness ==
    /\ pc = "evaluert"
    /\ nedbor.max_per_time = THRESHOLDS.nedbor_mm_per_time
    /\ Len(kraftig_nedbor_kommuner) = 1
    /\ nedbor.total_24t > 0
    /\ nedbor.total_24t < THRESHOLDS.nedbor_mm_per_dag
    /\ mye_nedbor_kommuner = <<>>

\* the temperatures an index range of the document carries
TempsIn(ts, lo, hi) ==
    {ts[j].air_temperature.v :
        j \in {i \in lo..hi : i \in DOMAIN ts /\ ts[i].air_temperature.tag = "val"}}

SetMin(S) == IF S = {} THEN 0 ELSE CHOOSE x \in S : \A y \in S : x <= y
SetMax(S) == IF S = {} THEN 0 ELSE CHOOSE x \in S : \A y \in S : x >= y

\* C2: whenever a temp_swing finding is emitted, its min/max are those of
\* the window (all entries, or the first 24) with the larger swing, and
\* those of the full window when the two swings are equal; for every
\* document, also one whose first 24 entries carry no temperature.
C2_RangeFromLargerWindow ==
    (pc = "evaluert" /\ temp_sving_kommuner # <<>>) =>
        LET full == TempsIn(timeseries, 1, Len(timeseries))
            w24 == TempsIn(timeseries, 1, Window24)
            pick == IF SetMax(full) - SetMin(full) >= SetMax(w24) - SetMin(w24)
                    THEN full ELSE w24
        IN /\ temp_sving_kommuner[1].min = SetMin(pick)
           /\ temp_sving_kommuner[1].max = SetMax(pick)

-----------------------------------------------------------------------------
(* Properties of analyser_nedbor, under SpecNedbor *)

\* C5: timer_dekket equals the number of entries that carry a non-null
\* precipitation value; an entry whose value is missing or null is not
\* counted.
C5_HoursCoveredCountsValues ==
    pc = "return" =>
        nedbor.timer_dekket =
            Cardinality({j \in DOMAIN timeseries :
                            timeseries[j].precipitation_amount.tag = "val"})

\* C6: with non-negative precipitation, total_24t <= total_periode for a
\* document of at least 24 entries, and the two are equal for a document of
\* fewer than 24 entries.
C6_Total24AtMostTotal ==
    pc = "return" =>
        /\ Len(timeseries) >= Window24 => nedbor.total_24t <= nedbor.total_periode
        /\ Len(timeseries) < Window24 => nedbor.total_24t = nedbor.total_periode

\* more than 24 entries, rain inside and after the first 24
C6_Witness ==
    /\ pc = "return"
    /\ Len(timeseries) > Window24
    /\ nedbor.total_24t > 0
    /\ nedbor.total_24t < nedbor.total_periode

-----------------------------------------------------------------------------
(* Properties of analyser_temperatur, under SpecTemp *)

\* C11: for every forecast document the 24 h swing is at most the
\* full-window swing and both are at least 0, so that the effective swing
\* max(sving, sving_24t) compared with the threshold is the full-window swing.
C11_Swing24AtMostSwing ==
    pc = "return" =>
        /\ temp.sving >= 0
        /\ temp.sving_24t >= 0
        /\ temp.sving_24t <= temp.sving
        /\ Max2(temp.sving_24t, temp.sving) = temp.sving

\* more than 24 entries, a swing inside the first 24 and a larger one overall
C11_Witness ==
    /\ pc = "return"
    /\ Len(timeseries) > Window24
    /\ temp.sving_24t > 0
    /\ temp.sving_24t < temp.sving

-----------------------------------------------------------------------------
(* Properties of hent_farevarsler_norge, under SpecDedup *)

Tagged(props) == props.county # "" \/ props.MunicipalityId # ""

IdentityKey(props) == <<props.event, props.severity, props.onset>>

RECURSIVE FirstOccurrences(_, _)
FirstOccurrences(fs, k) ==
    IF k = 0 THEN <<>>
    ELSE LET prev == FirstOccurrences(fs, k - 1) IN
         IF /\ Tagged(fs[k])
            /\ \A i \in 1..(k - 1) :
                  ~(Tagged(fs[i]) /\ IdentityKey(fs[i]) = IdentityKey(fs[k]))
         THEN Append(prev, fs[k])
         ELSE prev

\* C4: for every sequence of hazard records the output is exactly the
\* region-tagged records that are the first with their identity key
\* (event, severity, onset), in first-seen order: records with the same key
\* collapse to the first, records with different keys are all kept.
C4_FirstOccurrencePerKey ==
    (pc = "return" /\ data.tag = "ok") =>
        farevarsler.features = FirstOccurrences(data.features, Len(data.features))

-----------------------------------------------------------------------------
(* Properties of a run of main(), under Spec and FairSpec, and of its      *)
(* sends, under SpecSort                                                   *)

Gruppert(m) == m.funksjon = "send_slack_varsel_gruppert"

\* the group a combined message is built from, by its title
GruppeFor(tittel) ==
    CASE tittel = "Kraftig nedbor" -> kraftig_nedbor_kommuner
      [] tittel = "Mye nedbor" -> mye_nedbor_kommuner
      [] OTHER -> temp_sving_kommuner

Titler == {"Kraftig nedbor", "Mye nedbor", "Temperatursvingninger"}

\* the comparison value of a bullet or of a group record
Verdi(tittel, r) == IF tittel = "Temperatursvingninger" THEN r.sving ELSE r.verdi

\* position of a location in the configuration list
ConfigPos(navn) == CHOOSE k \in DOMAIN LOCATIONS : LOCATIONS[k].name = navn

Meldinger(tittel) == {m \in DOMAIN slack : Gruppert(slack[m]) /\ slack[m].tittel = tittel}

\* C3: the bullets of every combined message are a permutation of the
\* group (nothing lost, nothing twice), in descending order of the
\* comparison value, and locations with equal values stand in the order of
\* the location configuration list.
C3_BulletsSortedStable ==
    \A m \in DOMAIN slack :
        Gruppert(slack[m]) =>
            LET t == slack[m].tittel
                b == slack[m].melding.kommune_liste
                g == GruppeFor(t)
            IN /\ Len(b) = Len(g)
               /\ \A j \in DOMAIN g :
                     Cardinality({i \in DOMAIN b :
                         b[i].navn = g[j].navn /\ Verdi(t, b[i]) = Verdi(t, g[j])}) = 1
               /\ \A i, j \in DOMAIN b :
                     i < j =>
                        \/ Verdi(t, b[i]) > Verdi(t, b[j])
                        \/ /\ Verdi(t, b[i]) = Verdi(t, b[j])
                           /\ ConfigPos(b[i].navn) < ConfigPos(b[j].navn)

\* configuration order [A, B, C] with A = 10, B = 25, C = 25 gives [B, C, A]
C3_Witness ==
    \E m \in DOMAIN slack :
        /\ Gruppert(slack[m])
        /\ LET t == slack[m].tittel
               b == slack[m].melding.kommune_liste
           IN /\ Len(b) = 3
              /\ b[1].navn = LOCATIONS[2].name
              /\ b[2].navn = LOCATIONS[3].name
              /\ b[3].navn = LOCATIONS[1].name
              /\ Verdi(t, b[1]) = 25
              /\ Verdi(t, b[2]) = 25
              /\ Verdi(t, b[3]) = 10

NavnI(gruppe) == {gruppe[j].navn : j \in DOMAIN gruppe}

AlleGrupper == {kraftig_nedbor_kommuner, mye_nedbor_kommuner, temp_sving_kommuner}

\* the names of the locations whose fetch succeeded, in fetch order
HentetOk == SelectSeq(hentet, LAMBDA h : h.ok)

\* C7: the locations are fetched one at a time in configuration order, each
\* exactly once; a location whose fetch failed is not fetched again and is
\* in no group, and every later location is still fetched and evaluated
\* (with a swing threshold of 0 every fetched location has a swing finding).
C7_FetchOnceInOrder ==
    /\ Len(hentet) <= Len(Kommuner)
    /\ \A j \in DOMAIN hentet : hentet[j].navn = Kommuner[j].name
    /\ (webhook_set /\ pc \in {"send_time", "send_dogn", "send_temp", "done"})
          => Len(hentet) = Len(Kommuner)
    /\ \A j \in DOMAIN hentet :
          ~hentet[j].ok => \A g \in AlleGrupper : hentet[j].navn \notin NavnI(g)
    /\ \A g \in AlleGrupper : NavnI(g) \subseteq NavnI(HentetOk)
    /\ THRESHOLDS.temp_sving_grader = 0 =>
          [j \in DOMAIN temp_sving_kommuner |-> temp_sving_kommuner[j].navn]
              = [j \in DOMAIN HentetOk |-> HentetOk[j].navn]

\* the first fetch failed, the later locations were fetched and have findings
C7_Witness ==
    /\ pc = "done"
    /\ Len(hentet) = Len(Kommuner)
    /\ ~hentet[1].ok
    /\ \A g \in AlleGrupper : Kommuner[1].name \notin NavnI(g)
    /\ \A j \in 2..Len(Kommuner) : Kommuner[j].name \in NavnI(kraftig_nedbor_kommuner)

\* C8: per metric kind exactly one combined message is handed to the
\* notifier if the kind's group is non-empty and none if it is empty;
\* combined messages are only sent once the last location has been
\* processed; a run without any finding sends no combined message.
C8_OneMessagePerNonEmptyKind ==
    /\ \A t \in Titler : Cardinality(Meldinger(t)) <= 1
    /\ \A m \in DOMAIN slack :
          Gruppert(slack[m]) =>
             /\ slack[m].tittel \in Titler
             /\ GruppeFor(slack[m].tittel) # <<>>
             /\ idx = Len(Kommuner) + 1
             /\ Len(hentet) = Len(Kommuner)
    /\ (pc = "done" /\ webhook_set) =>
          \A t \in Titler :
             Cardinality(Meldinger(t)) = (IF GruppeFor(t) # <<>> THEN 1 ELSE 0)

\* a finished run with hourly and 24 h findings and no swing finding: two
\* combined messages
C8_Witness ==
    /\ pc = "done"
    /\ kraftig_nedbor_kommuner # <<>>
    /\ mye_nedbor_kommuner # <<>>
    /\ temp_sving_kommuner = <<>>
    /\ Cardinality(Meldinger("Kraftig nedbor")) = 1
    /\ Cardinality(Meldinger("Mye nedbor")) = 1
    /\ Meldinger("Temperatursvingninger") = {}

\* the messages a finished run owes: the hazard message is attempted before
\* the loop, one combined message per non-empty group after it
AlleForsokt ==
    (pc = "done" /\ webhook_set) =>
        \A t \in Titler : GruppeFor(t) # <<>> => Meldinger(t) # {}

\* C9: whatever fails (the hazard fetch, forecast fetches, deliveries),
\* main() reaches its end, and a failed delivery does not keep a later
\* message of the run from being attempted.
C9_RunCompletes == <>(pc = "done") /\ []AlleForsokt

\* the hazard message and the first combined message failed, a later
\* combined message was still attempted
C9_Witness ==
    /\ pc = "done"
    /\ Len(slack) >= 3
    /\ ~Gruppert(slack[1]) /\ ~slack[1].ok
    /\ Gruppert(slack[2]) /\ ~slack[2].ok
    /\ Gruppert(slack[3])
    /\ \E j \in DOMAIN hentet : ~hentet[j].ok

\* C10: every message handed to the notifier carries a map link built from
\* the coordinates of a configured location: the first location of the
\* sorted group for a combined message, the location named by the label for
\* a message sent through send_slack_varsel (the hazard message included).
C10_LinkHasConfiguredCoordinates ==
    \A m \in DOMAIN slack :
        \E k \in DOMAIN LOCATIONS :
            /\ slack[m].metno_url =
                  [lat |-> Val(LOCATIONS[k].lat), lon |-> Val(LOCATIONS[k].lon)]
            /\ LOCATIONS[k].name =
                  (IF Gruppert(slack[m]) THEN slack[m].melding.kommune_liste[1].navn
                   ELSE slack[m].tittel)

====
